---- MODULE Spec2Model ----
(***************************************************************************)
(* Model of IMAPConnection (imap-core/lib/imap-connection.js): the         *)
(* per-connection state, the close paths, the notification listener and    *)
(* the notification flush (emitNotifications / formatResponse).            *)
(***************************************************************************)
EXTENDS Integers, Sequences, FiniteSets, TLC

\* ------------------------------------------------------------------ bounds
\* longest notification queue the initial states of FlushSpec draw
MaxQueue == 3
\* number of updates the notifier's journal holds in a run of Spec
MaxDelivered == 1
\* number of updates the notifier's journal holds in a run of NotifySpec
MaxNotified == 2
\* largest modseq an update carries
MaxModseq == 2
\* number of subscriptions one connection makes in Spec
MaxSubs == 2
\* number of commands the client sends in CommandSpec
MaxCommands == 2
\* largest number of frames of one command
MaxFrames == 2
\* number of firings of the idle timer in TimerSpec
MaxTimeouts == 2
\* number of changes of the mailbox in StoreSpec
MaxChanges == 2

\* ------------------------------------------------------------- vocabulary
\* this.id: the session id (random in the code; one fixed value here)
id == "S"
\* an update without an ignore field
NoIgnore == ""
\* an update without a flags field (flag sets are numbered from 1)
NoFlags == 0

UIDs == {1, 2, 3}
Commands == {"EXISTS", "EXPUNGE", "FETCH"}
Ignores == {id, NoIgnore}
Mailboxes == {"INBOX", "Sent"}

\* an update record of the notifier: {command, uid, modseq, flags, ignore}
Update(c, u, m, f, i) ==
    [command |-> c, uid |-> u, modseq |-> m, flags |-> f, ignore |-> i]

\* updates before the journal gives them a modseq and, on FETCH, their flags
BaseUpdates == {Update(c, u, 0, NoFlags, i) : c \in Commands, u \in UIDs, i \in Ignores}

\* ---------------------------------------------------------------- state
VARIABLES
    state,            \* this.state
    closing,          \* this._closing
    closed,           \* this._closed
    inRegistry,       \* this \in this._server.connections
    socketWritable,   \* this._socket.writable
    socketDestroyed,  \* this._socket.destroyed
    idling,           \* this.idling
    selected,         \* this.selected is an object (not false)
    mailbox,          \* this.selected.mailbox
    uidList,          \* this.selected.uidList
    modifyIndex,      \* this.selected.modifyIndex
    condstoreEnabled, \* this.selected.condstoreEnabled
    notifications,    \* this.selected.notifications
    listenerData,     \* this._listenerData: 0 (false) or the subscription's number
    subs,             \* the listenerData closures created so far
    written,          \* what was handed to writeStream.write since the mailbox was selected
    sent,             \* payloads send() wrote to the socket
    immediates,       \* onNotifications calls scheduled with setImmediate
    lastFlush,        \* history: the queue, uidList and output of the last flush
    errorEmitted,     \* an 'error' event was emitted (and logged at error level)
    quota,            \* number of updates the notifier's journal still holds
    resolving,        \* init() ran and dns.reverse has not called back
    session,          \* this.session is an object (the session was started)
    clientHostname,   \* this.clientHostname ("" for the constructor's false)
    upgrading,        \* this._upgrading
    currentCommand,   \* this._currentCommand: 0 (false) or the command context's number
    commands,         \* the IMAPCommand contexts created so far
    framer,           \* the parser: the client's next frame, the callback it waits for
    timer,            \* history: what the firings of the idle timer did
    socketLog,        \* history: what the socket was given to write, in order
    journal,          \* the notifier's journal of the selected mailbox
    query             \* the getUpdates call the store is working on

connVars == <<state, closing, closed, inRegistry, socketWritable, socketDestroyed, idling>>
selVars == <<selected, mailbox, uidList, modifyIndex, condstoreEnabled, notifications>>
subVars == <<listenerData, subs>>
outVars == <<written, sent, immediates, lastFlush>>
cmdVars == <<resolving, session, clientHostname, upgrading, currentCommand, commands, framer>>
envVars == <<timer, socketLog, journal, query>>
vars == <<connVars, selVars, subVars, outVars, errorEmitted, quota, cmdVars, envVars>>

\* ------------------------------------------------------ formatResponse
\* Array.prototype.indexOf: 0-based index of the first occurrence, or -1
IndexOf(list, uid) ==
    IF \E i \in 1..Len(list) : list[i] = uid
    THEN (CHOOSE i \in 1..Len(list) : list[i] = uid /\ \A j \in 1..(i - 1) : list[j] # uid) - 1
    ELSE -1

\* list.splice(index, 1) with a 0-based index
Splice(list, index) == SubSeq(list, 1, index) \o SubSeq(list, index + 2, Len(list))

\* the response object {tag: '*', command: String(seq), attributes: [atom, [FLAGS.., MODSEQ..]]};
\* command keeps the number String() prints; modseq 0 stands for "no MODSEQ attribute"
Response(seq, atom, flags, modseq) ==
    [tag |-> "*", command |-> seq, atom |-> atom, flags |-> flags, modseq |-> modseq]

\* the value false that formatResponse returns for an unknown uid
False == [tag |-> "", command |-> 0, atom |-> "false", flags |-> NoFlags, modseq |-> 0]

\* the data argument of a notification FETCH: {flags, modseq}
NoData == [flags |-> NoFlags, modseq |-> 0]

\* formatResponse(command, uid, data) on uid list `list`: the value returned
\* and the uid list it leaves
formatResponse(command, uid, data, list) ==
    IF command = "EXISTS"
    THEN [response |-> Response(Len(list) + 1, command, data.flags, data.modseq),
          uidList |-> Append(list, uid)]
    ELSE LET seq == IndexOf(list, uid) IN
         IF seq < 0
         THEN [response |-> False, uidList |-> list]
         ELSE [response |-> Response(seq + 1, command, data.flags, data.modseq),
               uidList |-> IF command = "EXPUNGE" THEN Splice(list, seq) ELSE list]

\* --------------------------------------------------- emitNotifications
\* added / removed / skip sets of a queue
Added(q) == {q[i].uid : i \in {j \in 1..Len(q) : q[j].command = "EXISTS"}}
Removed(q) == {q[i].uid : i \in {j \in 1..Len(q) : q[j].command = "EXPUNGE"}}
\* a skip set that is never filled
Skip_Empty(q) == {}
Skip(q) == {uid \in Removed(q) : uid \in Added(q)}

\* a scan that keeps every FETCH update
FilterFetches_KeepAll(q, i, fetches, added, removed) == q

\* the right-to-left scan that splices superfluous FETCH updates out of the
\* queue: i is the (1-based) position under inspection, fetches the uids
\* whose latest FETCH was already kept
RECURSIVE FilterFetches(_, _, _, _, _)
FilterFetches(q, i, fetches, added, removed) ==
    IF i < 1 THEN q
    ELSE LET update == q[i] IN
         IF update.command = "FETCH"
         THEN IF update.uid \in fetches \/ update.uid \in added \/ update.uid \in removed
              THEN FilterFetches(Splice(q, i - 1), i - 1, fetches, added, removed)
              ELSE FilterFetches(q, i - 1, fetches \cup {update.uid}, added, removed)
         ELSE FilterFetches(q, i - 1, fetches, added, removed)

\* what the write stream receives: the value written and, as history, the
\* update that caused it and the uid list formatResponse found
Item(resp, cause, list) == [resp |-> resp, cause |-> cause, list |-> list]
\* cause of the EXISTS written at the end of a flush that had an EXPUNGE
Synthesized == Update("SYNTHESIZED", 0, 0, NoFlags, NoIgnore)
\* cause of the EXISTS the SELECT handler reports
FromSelect == Update("SELECT", 0, 0, NoFlags, NoIgnore)
\* existsResponse while undefined
NoItem == Item(False, Update("NONE", 0, 0, NoFlags, NoIgnore), <<>>)

\* modifyIndex assigned without the comparison
AdvanceModifyIndex_Unguarded(current, modseq) == modseq
\* update.modseq > this.selected.modifyIndex ? update.modseq : unchanged
AdvanceModifyIndex(current, modseq) == IF modseq > current THEN modseq ELSE current

\* an echo test that never matches
IsEcho_Never(update) == FALSE
\* update.ignore === this.id
IsEcho(update) == update.ignore = id

\* the locals and fields the main loop of emitNotifications works on
LoopState(list, index) ==
    [uidList |-> list, modifyIndex |-> index, existsResponse |-> NoItem,
     changed |-> FALSE, out |-> <<>>]

\* case 'EXISTS' of the switch
CaseExists(update, acc) ==
    LET r == formatResponse("EXISTS", update.uid, NoData, acc.uidList) IN
    [acc EXCEPT !.uidList = r.uidList,
                !.existsResponse = Item(r.response, update, acc.uidList),
                !.changed = FALSE]

\* an EXPUNGE case that forgets to set changed
CaseExpunge_NotChanged(update, acc) ==
    LET seq == IndexOf(acc.uidList, update.uid) IN
    IF seq >= 0
    THEN LET r == formatResponse("EXPUNGE", update.uid, NoData, acc.uidList) IN
         [acc EXCEPT !.uidList = r.uidList,
                     !.out = Append(@, Item(r.response, update, acc.uidList))]
    ELSE acc

\* case 'EXPUNGE' of the switch
CaseExpunge(update, acc) ==
    LET seq == IndexOf(acc.uidList, update.uid) IN
    IF seq >= 0
    THEN LET r == formatResponse("EXPUNGE", update.uid, NoData, acc.uidList) IN
         [acc EXCEPT !.uidList = r.uidList,
                     !.out = Append(@, Item(r.response, update, acc.uidList)),
                     !.changed = TRUE]
    ELSE acc

\* case 'FETCH' of the switch: whatever formatResponse returns is written
CaseFetch(update, cs, acc) ==
    LET data == [flags |-> update.flags,
                 modseq |-> IF cs /\ update.modseq # 0 THEN update.modseq ELSE 0]
        r == formatResponse("FETCH", update.uid, data, acc.uidList) IN
    [acc EXCEPT !.uidList = r.uidList,
                !.out = Append(@, Item(r.response, update, acc.uidList))]

\* one iteration of the main loop
LoopBody(update, skip, cs, acc) ==
    IF update.uid \in skip THEN acc
    ELSE LET acc1 == [acc EXCEPT !.modifyIndex = AdvanceModifyIndex(@, update.modseq)] IN
         IF IsEcho(update) THEN acc1
         ELSE CASE update.command = "EXISTS" -> CaseExists(update, acc1)
                [] update.command = "EXPUNGE" -> CaseExpunge(update, acc1)
                [] update.command = "FETCH" -> CaseFetch(update, cs, acc1)
                [] OTHER -> acc1

RECURSIVE Loop(_, _, _, _, _)
Loop(q, i, skip, cs, acc) ==
    IF i > Len(q) THEN acc
    ELSE Loop(q, i + 1, skip, cs, LoopBody(q[i], skip, cs, acc))

\* the cached EXISTS written whether or not an EXPUNGE followed it
WriteCachedExists_IgnoringChanged(acc) ==
    IF acc.existsResponse # NoItem
    THEN [acc EXCEPT !.out = Append(@, acc.existsResponse), !.existsResponse = NoItem]
    ELSE acc

\* if (existsResponse && !changed): the cached EXISTS is written
WriteCachedExists(acc) ==
    IF acc.existsResponse # NoItem /\ ~acc.changed
    THEN [acc EXCEPT !.out = Append(@, acc.existsResponse), !.existsResponse = NoItem]
    ELSE acc

\* the closing EXISTS produced by formatResponse('EXISTS'), which pushes to
\* the uid list once more
WriteSynthesizedExists_ViaFormatResponse(acc) ==
    IF acc.changed
    THEN LET r == formatResponse("EXISTS", 0, NoData, acc.uidList) IN
         [acc EXCEPT !.uidList = r.uidList,
                     !.out = Append(@, Item(r.response, Synthesized, acc.uidList))]
    ELSE acc

\* if (changed): an EXISTS with the current length is written, not passing
\* through formatResponse
WriteSynthesizedExists(acc) ==
    IF acc.changed
    THEN [acc EXCEPT !.out = Append(@, Item(Response(Len(acc.uidList), "EXISTS", NoFlags, 0),
                                             Synthesized, acc.uidList))]
    ELSE acc

\* the body of emitNotifications past its guard, on queue q
Emit(q, list, index, cs) ==
    LET survivors == FilterFetches(q, Len(q), {}, Added(q), Removed(q)) IN
    WriteSynthesizedExists(WriteCachedExists(
        Loop(survivors, 1, Skip(q), cs, LoopState(list, index))))

\* the guard of emitNotifications
EmitRuns(st, sel, q) == st = "Selected" /\ sel /\ Len(q) > 0

\* emitNotifications that leaves the queue as it found it
emitNotifications_KeepingQueue(q, index) ==
    IF EmitRuns(state, selected, q)
    THEN LET r == Emit(q, uidList, index, condstoreEnabled) IN
         /\ uidList' = r.uidList
         /\ modifyIndex' = r.modifyIndex
         /\ notifications' = q
         /\ written' = written \o r.out
         /\ immediates' = Append(immediates, [mailbox |-> mailbox, modifyIndex |-> r.modifyIndex])
         /\ lastFlush' = [ran |-> TRUE, queue |-> q, uidList |-> uidList, out |-> r.out,
                        after |-> r.uidList]
    ELSE /\ notifications' = q
         /\ modifyIndex' = index
         /\ UNCHANGED <<uidList, written, immediates, lastFlush>>

\* emitNotifications() called when the queue is q and modifyIndex is index:
\* the selected mailbox's fields, the write stream, the scheduled
\* onNotifications call
emitNotifications(q, index) ==
    IF EmitRuns(state, selected, q)
    THEN LET r == Emit(q, uidList, index, condstoreEnabled) IN
         /\ uidList' = r.uidList
         /\ modifyIndex' = r.modifyIndex
         /\ notifications' = <<>>
         /\ written' = written \o r.out
         /\ immediates' = Append(immediates, [mailbox |-> mailbox, modifyIndex |-> r.modifyIndex])
         /\ lastFlush' = [ran |-> TRUE, queue |-> q, uidList |-> uidList, out |-> r.out,
                        after |-> r.uidList]
    ELSE /\ notifications' = q
         /\ modifyIndex' = index
         /\ UNCHANGED <<uidList, written, immediates, lastFlush>>

\* ------------------------------------------------- send, close, socket
\* send(payload): written to the socket when it is writable
send(payload) == sent' = IF socketWritable THEN Append(sent, payload) ELSE sent

\* close(): ends the socket, leaves the registry, marks the connection closing
close ==
    /\ socketWritable' = IF ~socketDestroyed /\ socketWritable THEN FALSE ELSE socketWritable
    /\ inRegistry' = FALSE
    /\ closing' = TRUE

\* listenerData.clear() of subscription g, on the closures
ClearSub(s, g) == [s EXCEPT ![g].registered = FALSE, ![g].cleared = TRUE]
\* listenerData.clear() of subscription g, on this._listenerData
ClearListenerData(current, g) == IF current = g THEN 0 ELSE current

\* _onClose(): the handler of the socket's 'close' event, also called by _onEnd
onClose ==
    IF closed
    THEN UNCHANGED <<state, subVars, inRegistry, closed, closing>>
    ELSE /\ state' = "Closed"
         /\ IF listenerData # 0
            THEN /\ subs' = ClearSub(subs, listenerData)
                 /\ listenerData' = ClearListenerData(listenerData, listenerData)
            ELSE UNCHANGED subVars
         /\ inRegistry' = FALSE
         /\ closed' = TRUE
         /\ closing' = FALSE

\* the server (or a command handler) calls close()
Close ==
    /\ close
    /\ UNCHANGED <<state, closed, socketDestroyed, idling, selVars, subVars, outVars, errorEmitted,
                   quota>>

\* the socket emits 'end': _onEnd()
OnEnd ==
    /\ onClose
    /\ socketWritable' \in {socketWritable, FALSE}
    /\ UNCHANGED <<socketDestroyed, idling, selVars, outVars, errorEmitted, quota>>

\* the socket emits 'close': _onClose()
OnClose ==
    /\ onClose
    /\ socketWritable' = FALSE
    /\ socketDestroyed' = TRUE
    /\ UNCHANGED <<idling, selVars, outVars, errorEmitted, quota>>

ErrorCodes == {"ECONNRESET", "EPIPE", "ETIMEDOUT"}

\* the socket or the write stream emits 'error': _onError(err)
OnError(code, processed) ==
    /\ ~socketDestroyed
    /\ IF processed
       THEN UNCHANGED <<socketWritable, inRegistry, closing, errorEmitted>>
       ELSE IF code = "ECONNRESET" \/ code = "EPIPE"
            THEN close /\ UNCHANGED errorEmitted
            ELSE errorEmitted' = TRUE /\ UNCHANGED <<socketWritable, inRegistry, closing>>
    /\ UNCHANGED <<state, closed, socketDestroyed, idling, selVars, subVars, outVars, quota>>

\* _onTimeout that does not look at idling
OnTimeout_IgnoringIdling ==
    /\ ~socketDestroyed
    /\ send("* BYE Idle timeout, closing connection") /\ close
    /\ UNCHANGED <<state, closed, socketDestroyed, idling, selVars, subVars, written, immediates,
                   lastFlush, errorEmitted, quota>>

\* the socket's idle timer fires: _onTimeout()
OnTimeout ==
    /\ ~socketDestroyed
    /\ IF idling
       THEN UNCHANGED <<socketWritable, inRegistry, closing, sent>>
       ELSE send("* BYE Idle timeout, closing connection") /\ close
    /\ UNCHANGED <<state, closed, socketDestroyed, idling, selVars, subVars, written, immediates,
                   lastFlush, errorEmitted, quota>>

\* --------------------------------------------- notification listener
\* a listenerData object with its closure variable `cleared`; registered
\* tells whether the notifier holds its callback, pending counts its
\* getUpdates calls that have not called back
Sub(mb) == [mailbox |-> mb, lock |-> FALSE, cleared |-> FALSE, registered |-> TRUE, pending |-> 0]

\* updateNotificationListener that does not clear the listener it replaces
updateNotificationListener_KeepingOld(sel, mb) ==
    IF listenerData # 0 /\ sel /\ subs[listenerData].mailbox = mb
    THEN UNCHANGED subVars
    ELSE IF ~sel
         THEN subs' = subs /\ listenerData' = 0
         ELSE subs' = Append(subs, Sub(mb)) /\ listenerData' = Len(subs) + 1

\* updateNotificationListener(done), given the selection it finds
updateNotificationListener(sel, mb) ==
    LET stale == listenerData # 0 /\ (~sel \/ subs[listenerData].mailbox # mb)
        subs1 == IF stale THEN ClearSub(subs, listenerData) ELSE subs
        current == IF stale THEN ClearListenerData(listenerData, listenerData) ELSE listenerData
    IN  IF current # 0
        THEN UNCHANGED subVars
        ELSE IF ~sel
             THEN subs' = subs1 /\ listenerData' = 0
             ELSE subs' = Append(subs1, Sub(mb)) /\ listenerData' = Len(subs1) + 1

\* a callback that does not look at listenerData.lock
Callback_IgnoringLock(g, del, mb) ==
    /\ g \in DOMAIN subs
    /\ IF selected /\ del /\ mb = mailbox
       THEN /\ send("* BYE Selected mailbox was deleted, have to disconnect")
            /\ close
            /\ UNCHANGED <<subVars>>
       ELSE /\ UNCHANGED <<socketWritable, inRegistry, closing, sent>>
            /\ IF subs[g].cleared
               THEN UNCHANGED subVars
               ELSE IF state # "Selected" \/ ~selected
                    THEN /\ subs' = ClearSub(subs, g)
                         /\ listenerData' = ClearListenerData(listenerData, g)
                    ELSE /\ subs' = [subs EXCEPT ![g].lock = TRUE, ![g].pending = @ + 1]
                         /\ UNCHANGED listenerData
    /\ UNCHANGED <<state, closed, socketDestroyed, idling, selVars, written, immediates, lastFlush,
                   errorEmitted, quota>>

\* the callback of subscription g, invoked by the notifier with a message
\* (del: a DELETE message for mailbox mb)
Callback(g, del, mb) ==
    /\ g \in DOMAIN subs
    /\ IF selected /\ del /\ mb = mailbox
       THEN /\ send("* BYE Selected mailbox was deleted, have to disconnect")
            /\ close
            /\ UNCHANGED <<subVars>>
       ELSE /\ UNCHANGED <<socketWritable, inRegistry, closing, sent>>
            /\ IF subs[g].lock /\ ~subs[g].cleared
               THEN UNCHANGED subVars
               ELSE IF subs[g].cleared
                    THEN UNCHANGED subVars
                    ELSE IF state # "Selected" \/ ~selected
                         THEN /\ subs' = ClearSub(subs, g)
                              /\ listenerData' = ClearListenerData(listenerData, g)
                         ELSE /\ subs' = [subs EXCEPT ![g].lock = TRUE, ![g].pending = @ + 1]
                              /\ UNCHANGED listenerData
    /\ UNCHANGED <<state, closed, socketDestroyed, idling, selVars, written, immediates, lastFlush,
                   errorEmitted, quota>>

\* updates the notifier's journal may return in Spec: a new uid 3, or uid 1
\* expunged or flagged, with any modseq
JournalUpdates ==
    {Update(c, IF c = "EXISTS" THEN 3 ELSE 1, m, IF c = "FETCH" THEN m ELSE NoFlags, NoIgnore) :
        c \in Commands, m \in 1..MaxModseq}

\* a getUpdates callback that does not look at `cleared`
GetUpdatesDone_IgnoringCleared(g, err, updates) ==
    /\ g \in DOMAIN subs
    /\ subs[g].pending > 0
    /\ Len(updates) <= quota
    /\ err => updates = <<>>
    /\ quota' = quota - Len(updates)
    /\ IF err
       THEN /\ subs' = [subs EXCEPT ![g].pending = @ - 1, ![g].lock = FALSE]
            /\ UNCHANGED <<listenerData, selVars, written, immediates, lastFlush>>
       ELSE IF state # "Selected" \/ ~selected
       THEN /\ subs' = ClearSub([subs EXCEPT ![g].pending = @ - 1, ![g].lock = FALSE], g)
            /\ listenerData' = ClearListenerData(listenerData, g)
            /\ UNCHANGED <<selVars, written, immediates, lastFlush>>
       ELSE /\ subs' = [subs EXCEPT ![g].pending = @ - 1, ![g].lock = FALSE]
            /\ UNCHANGED <<listenerData, selected, mailbox, condstoreEnabled>>
            /\ IF Len(updates) = 0
               THEN UNCHANGED <<uidList, modifyIndex, notifications, written, immediates,
                                lastFlush>>
               ELSE LET index == AdvanceModifyIndex(modifyIndex, updates[Len(updates)].modseq)
                        q == notifications \o updates IN
                    IF idling
                    THEN emitNotifications(q, index)
                    ELSE /\ notifications' = q
                         /\ modifyIndex' = index
                         /\ UNCHANGED <<uidList, written, immediates, lastFlush>>
    /\ UNCHANGED <<connVars, sent, errorEmitted>>

\* getUpdates of subscription g calls back with (err, updates)
GetUpdatesDone(g, err, updates) ==
    /\ g \in DOMAIN subs
    /\ subs[g].pending > 0
    /\ Len(updates) <= quota
    /\ err => updates = <<>>
    /\ quota' = quota - Len(updates)
    /\ IF subs[g].cleared
       THEN /\ subs' = [subs EXCEPT ![g].pending = @ - 1]
            /\ UNCHANGED <<listenerData, selVars, written, immediates, lastFlush>>
       ELSE IF err
       THEN /\ subs' = [subs EXCEPT ![g].pending = @ - 1, ![g].lock = FALSE]
            /\ UNCHANGED <<listenerData, selVars, written, immediates, lastFlush>>
       ELSE IF state # "Selected" \/ ~selected
       THEN /\ subs' = ClearSub([subs EXCEPT ![g].pending = @ - 1, ![g].lock = FALSE], g)
            /\ listenerData' = ClearListenerData(listenerData, g)
            /\ UNCHANGED <<selVars, written, immediates, lastFlush>>
       ELSE /\ subs' = [subs EXCEPT ![g].pending = @ - 1, ![g].lock = FALSE]
            /\ UNCHANGED <<listenerData, selected, mailbox, condstoreEnabled>>
            /\ IF Len(updates) = 0
               THEN UNCHANGED <<uidList, modifyIndex, notifications, written, immediates,
                                lastFlush>>
               ELSE LET index == AdvanceModifyIndex(modifyIndex, updates[Len(updates)].modseq)
                        q == notifications \o updates IN
                    IF idling
                    THEN emitNotifications(q, index)
                    ELSE /\ notifications' = q
                         /\ modifyIndex' = index
                         /\ UNCHANGED <<uidList, written, immediates, lastFlush>>
    /\ UNCHANGED <<connVars, sent, errorEmitted>>

\* the scheduler runs the oldest setImmediate callback: server.onNotifications
RunImmediate ==
    /\ immediates # <<>>
    /\ immediates' = Tail(immediates)
    /\ UNCHANGED <<connVars, selVars, subVars, written, sent, lastFlush, errorEmitted, quota>>

\* ------------------------------------------------------ init, _onCommand
\* the greeting init() sends ('* OK ' + server name + ' ready')
Greeting == "* OK server ready"

\* this.remoteAddress, and the lists dns.reverse may hand to its callback
\* (none when the lookup fails)
RemoteAddress == "192.0.2.1"
NoHostname == ""
Hostnames == {<<>>, <<"client.example">>, <<"client.example", "alias.example">>}

\* (hostnames && hostnames.shift()) || '[' + this.remoteAddress + ']'
ClientHostname(hostnames) ==
    IF Len(hostnames) > 0 /\ Head(hostnames) # ""
    THEN Head(hostnames)
    ELSE "[" \o RemoteAddress \o "]"

\* a dns.reverse callback that starts the session whatever the connection's state
ReverseDone_IgnoringClose(err, hostnames) ==
    /\ resolving
    /\ err => hostnames = <<>>
    /\ resolving' = FALSE
    /\ clientHostname' = ClientHostname(hostnames)
    /\ session' = TRUE
    /\ send(Greeting)
    /\ UNCHANGED <<connVars, selVars, subVars, written, immediates, lastFlush, errorEmitted, quota,
                   upgrading, currentCommand, commands, framer>>

\* the callback of dns.reverse in init(), called with (err, hostnames)
ReverseDone(err, hostnames) ==
    /\ resolving
    /\ err => hostnames = <<>>
    /\ resolving' = FALSE
    /\ IF closing \/ closed
       THEN UNCHANGED <<session, clientHostname, sent>>
       ELSE /\ clientHostname' = ClientHostname(hostnames)
            /\ session' = TRUE
            /\ send(Greeting)
    /\ UNCHANGED <<connVars, selVars, subVars, written, immediates, lastFlush, errorEmitted, quota,
                   upgrading, currentCommand, commands, framer>>

\* a frame the parser hands to _onCommand: the client command it is part of,
\* its position in the client's stream, command.final
Frame(c, n, final) == [cmd |-> c, n |-> n, final |-> final]

\* new IMAPCommand(this): the frames it was given, whether end() was called,
\* whether the command it assembled has completed
Context == [frames |-> <<>>, ended |-> FALSE, completed |-> FALSE]

\* the parser before the client has sent anything: the next frame is frame
\* n of the stream, part `part` of client command cmd; waiting tells that the
\* callback given to _onCommand has not been called
NoFrames == [cmd |-> 1, n |-> 1, part |-> 1, waiting |-> FALSE]

\* _onCommand that never looks at _upgrading
onCommand_IgnoringUpgrade(frame, up, current, contexts) ==
    LET cmds == IF current = 0 THEN Append(contexts, Context) ELSE contexts
        cc == IF current = 0 THEN Len(cmds) ELSE current
    IN  IF ~frame.final
        THEN [currentCommand |-> cc, called |-> FALSE,
              commands |-> [cmds EXCEPT ![cc].frames = Append(@, frame)]]
        ELSE [currentCommand |-> 0, called |-> FALSE,
              commands |-> [cmds EXCEPT ![cc].frames = Append(@, frame), ![cc].ended = TRUE]]

\* _onCommand that leaves _currentCommand set on the final frame
onCommand_KeepingContext(frame, up, current, contexts) ==
    IF up
    THEN [currentCommand |-> current, commands |-> contexts, called |-> TRUE]
    ELSE LET cmds == IF current = 0 THEN Append(contexts, Context) ELSE contexts
             cc == IF current = 0 THEN Len(cmds) ELSE current
         IN  IF ~frame.final
             THEN [currentCommand |-> cc, called |-> FALSE,
                   commands |-> [cmds EXCEPT ![cc].frames = Append(@, frame)]]
             ELSE [currentCommand |-> cc, called |-> FALSE,
                   commands |-> [cmds EXCEPT ![cc].frames = Append(@, frame), ![cc].ended = TRUE]]

\* _onCommand(command, callback) when _upgrading is up and _currentCommand
\* is current: the fields it leaves and whether it called the callback itself
\* (append and end keep the callback and call it later)
onCommand(frame, up, current, contexts) ==
    IF up
    THEN [currentCommand |-> current, commands |-> contexts, called |-> TRUE]
    ELSE LET cmds == IF current = 0 THEN Append(contexts, Context) ELSE contexts
             cc == IF current = 0 THEN Len(cmds) ELSE current
         IN  IF ~frame.final
             THEN [currentCommand |-> cc, called |-> FALSE,
                   commands |-> [cmds EXCEPT ![cc].frames = Append(@, frame)]]
             ELSE [currentCommand |-> 0, called |-> FALSE,
                   commands |-> [cmds EXCEPT ![cc].frames = Append(@, frame), ![cc].ended = TRUE]]

\* the parser hands the client's next frame to _onCommand; it hands over no
\* frame while it waits for the callback of the previous one
OnCommand(final) ==
    /\ ~closed
    /\ ~framer.waiting
    /\ framer.cmd <= MaxCommands
    /\ framer.part = MaxFrames => final
    /\ LET r == onCommand(Frame(framer.cmd, framer.n, final), upgrading, currentCommand,
                          commands) IN
       /\ currentCommand' = r.currentCommand
       /\ commands' = r.commands
       /\ framer' = [cmd |-> IF final THEN framer.cmd + 1 ELSE framer.cmd,
                     n |-> framer.n + 1,
                     part |-> IF final THEN 1 ELSE framer.part + 1,
                     waiting |-> ~r.called]
    /\ UNCHANGED <<connVars, selVars, subVars, outVars, errorEmitted, quota, resolving, session,
                   clientHostname, upgrading>>

\* IMAPCommand.append has taken a non-final frame and calls the callback
AppendDone ==
    /\ framer.waiting /\ currentCommand # 0
    /\ framer' = [framer EXCEPT !.waiting = FALSE]
    /\ UNCHANGED <<connVars, selVars, subVars, outVars, errorEmitted, quota, resolving, session,
                   clientHostname, upgrading, currentCommand, commands>>

\* the command IMAPCommand.end started completes and the callback is called;
\* a STARTTLS command leaves _upgrading set
EndDone(starttls) ==
    /\ framer.waiting /\ currentCommand = 0
    /\ \E c \in DOMAIN commands :
          /\ commands[c].ended /\ ~commands[c].completed
          /\ commands' = [commands EXCEPT ![c].completed = TRUE]
    /\ framer' = [framer EXCEPT !.waiting = FALSE]
    /\ upgrading' = (upgrading \/ starttls)
    /\ UNCHANGED <<connVars, selVars, subVars, outVars, errorEmitted, quota, resolving, session,
                   clientHostname, currentCommand>>

\* the TLS upgrade finishes
UpgradeDone ==
    /\ upgrading
    /\ upgrading' = FALSE
    /\ UNCHANGED <<connVars, selVars, subVars, outVars, errorEmitted, quota, resolving, session,
                   clientHostname, currentCommand, commands, framer>>

\* ------------------------------------------- command handlers (callers)
NoFlush == [ran |-> FALSE, queue |-> <<>>, uidList |-> <<>>, out |-> <<>>, after |-> <<>>]

\* the uid list the store holds for a mailbox
StoredUids(mb) == IF mb = "INBOX" THEN <<1, 2>> ELSE <<1>>

\* commands are read and run while the connection is neither closing nor closed
Open == ~closing /\ ~closed

\* LOGIN succeeds
Login ==
    /\ state = "Not Authenticated" /\ Open
    /\ state' = "Authenticated"
    /\ UNCHANGED <<closing, closed, inRegistry, socketWritable, socketDestroyed, idling, selVars,
                   subVars, outVars, errorEmitted, quota>>

\* SELECT of mailbox mb succeeds: the handler installs the snapshot, reports
\* its size and calls updateNotificationListener
Select(mb, index, cs) ==
    /\ state \in {"Authenticated", "Selected"} /\ Open /\ ~idling
    /\ Len(subs) < MaxSubs
    /\ state' = "Selected"
    /\ selected' = TRUE /\ mailbox' = mb
    /\ uidList' = StoredUids(mb)
    /\ modifyIndex' = index
    /\ condstoreEnabled' = cs
    /\ notifications' = <<>>
    /\ written' = <<Item(Response(Len(StoredUids(mb)), "EXISTS", NoFlags, 0), FromSelect,
                         StoredUids(mb))>>
    /\ lastFlush' = NoFlush
    /\ updateNotificationListener(TRUE, mb)
    /\ UNCHANGED <<closing, closed, inRegistry, socketWritable, socketDestroyed, idling, sent,
                   immediates, errorEmitted, quota>>

\* CLOSE / UNSELECT: the handler drops the snapshot and calls
\* updateNotificationListener
Unselect ==
    /\ state = "Selected" /\ Open /\ ~idling
    /\ state' = "Authenticated"
    /\ selected' = FALSE /\ mailbox' = ""
    /\ uidList' = <<>> /\ modifyIndex' = 0 /\ condstoreEnabled' = FALSE
    /\ notifications' = <<>>
    /\ written' = <<>>
    /\ lastFlush' = NoFlush
    /\ updateNotificationListener(FALSE, "")
    /\ UNCHANGED <<closing, closed, inRegistry, socketWritable, socketDestroyed, idling, sent,
                   immediates, errorEmitted, quota>>

\* IDLE starts: idling is set and the pending notifications are flushed
StartIdle ==
    /\ state \in {"Authenticated", "Selected"} /\ Open /\ ~idling
    /\ idling' = TRUE
    /\ emitNotifications(notifications, modifyIndex)
    /\ UNCHANGED <<state, closing, closed, inRegistry, socketWritable, socketDestroyed, selected,
                   mailbox, condstoreEnabled, subVars, sent, errorEmitted, quota>>

\* DONE ends IDLE
StopIdle ==
    /\ idling /\ Open
    /\ idling' = FALSE
    /\ UNCHANGED <<state, closing, closed, inRegistry, socketWritable, socketDestroyed, selVars,
                   subVars, outVars, errorEmitted, quota>>

\* a command completes and flushes the pending notifications
CommandFlush ==
    /\ ~idling /\ Open
    /\ notifications # <<>>
    /\ emitNotifications(notifications, modifyIndex)
    /\ UNCHANGED <<connVars, selected, mailbox, condstoreEnabled, subVars, sent, errorEmitted,
                   quota>>

\* ------------------------------------------------ timer, socket, store
\* the idle timer fires: _onTimeout(); timer records whether idling was set
\* at each firing
TimerFires ==
    /\ Len(timer) < MaxTimeouts
    /\ OnTimeout
    /\ timer' = Append(timer, idling)

\* what the socket is given to write: a line by send(), or a response the
\* composer was handed and pipes on; handed is the number of responses the
\* composer had been handed when send() wrote the line
SendEntry(line, handed) == [from |-> "send", line |-> line, item |-> NoItem, handed |-> handed]
PipeEntry(item) == [from |-> "composer", line |-> "", item |-> item, handed |-> 0]

\* number of responses among the first i things the socket was given
Piped(log, i) == Cardinality({j \in 1..i : log[j].from = "composer"})

\* send() writes to this._socket itself: the line is next on the socket
Direct ==
    socketLog' = IF sent' # sent
                 THEN Append(socketLog, SendEntry(sent'[Len(sent')], Len(written)))
                 ELSE socketLog

\* writeStream.pipe(this._socket): the composer passes the oldest response it
\* still holds to the socket
Pipe ==
    /\ socketWritable
    /\ Piped(socketLog, Len(socketLog)) < Len(written)
    /\ socketLog' = Append(socketLog, PipeEntry(written[Piped(socketLog, Len(socketLog)) + 1]))
    /\ UNCHANGED <<connVars, selVars, subVars, outVars, errorEmitted, quota, cmdVars, timer,
                   journal, query>>

\* no getUpdates call is with the store
NoQuery == [since |-> -1, read |-> FALSE, result |-> <<>>]

\* the journal entries getUpdates returns for modifyIndex since
Since(entries, since) == SelectSeq(entries, LAMBDA u : u.modseq > since)

\* the mailbox changes: the journal gets an entry and the notifier invokes
\* the callback of subscription g, whose getUpdates call (if it makes one)
\* goes to the store with the modifyIndex of that moment
Change(g, c) ==
    /\ Len(journal) < MaxChanges
    /\ g = listenerData
    /\ journal' = Append(journal,
                         Update(c, IF c = "EXISTS" THEN 3 ELSE 1, Len(journal) + 1,
                                IF c = "FETCH" THEN Len(journal) + 1 ELSE NoFlags, NoIgnore))
    /\ Callback(g, FALSE, mailbox)
    /\ query' = IF subs'[g].pending > subs[g].pending
                THEN [since |-> modifyIndex, read |-> FALSE, result |-> <<>>]
                ELSE query

\* the store reads the journal for the getUpdates call it holds
StoreRead ==
    /\ query # NoQuery /\ ~query.read
    /\ query' = [query EXCEPT !.read = TRUE, !.result = Since(journal, query.since)]
    /\ UNCHANGED <<connVars, selVars, subVars, outVars, errorEmitted, quota, cmdVars, timer,
                   socketLog, journal>>

\* the store calls back with what it read
Answer(g) ==
    /\ query # NoQuery /\ query.read
    /\ GetUpdatesDone(g, FALSE, query.result)
    /\ query' = NoQuery

\* ------------------------------------------------------ specifications
\* no frame was read, no timer has fired, the socket was given nothing, the
\* journal is empty
NothingYet ==
    /\ upgrading = FALSE /\ currentCommand = 0 /\ commands = <<>> /\ framer = NoFrames
    /\ timer = <<>> /\ socketLog = <<>> /\ journal = <<>> /\ query = NoQuery

\* the connection as its constructor leaves it, in the server's registry,
\* init() waiting for dns.reverse
Init ==
    /\ state = "Not Authenticated" /\ closing = FALSE /\ closed = FALSE
    /\ inRegistry = TRUE /\ socketWritable = TRUE /\ socketDestroyed = FALSE
    /\ idling = FALSE
    /\ selected = FALSE /\ mailbox = ""
    /\ uidList = <<>> /\ modifyIndex = 0 /\ condstoreEnabled = FALSE
    /\ notifications = <<>>
    /\ listenerData = 0 /\ subs = <<>>
    /\ written = <<>> /\ sent = <<>> /\ immediates = <<>>
    /\ lastFlush = NoFlush
    /\ errorEmitted = FALSE
    /\ quota = MaxDelivered
    /\ resolving = TRUE /\ session = FALSE /\ clientHostname = NoHostname
    /\ NothingYet

Next ==
    \/ \E err \in BOOLEAN, hostnames \in Hostnames :
          ReverseDone(err, hostnames) /\ UNCHANGED envVars
    \/ Login /\ UNCHANGED <<cmdVars, envVars>>
    \/ \E mb \in Mailboxes : Select(mb, 1, FALSE) /\ UNCHANGED <<cmdVars, envVars>>
    \/ Unselect /\ UNCHANGED <<cmdVars, envVars>>
    \/ StartIdle /\ UNCHANGED <<cmdVars, envVars>>
    \/ StopIdle /\ UNCHANGED <<cmdVars, envVars>>
    \/ CommandFlush /\ UNCHANGED <<cmdVars, envVars>>
    \/ \E g \in DOMAIN subs, del \in BOOLEAN, mb \in Mailboxes :
          Callback(g, del, mb) /\ UNCHANGED <<cmdVars, envVars>>
    \/ \E g \in DOMAIN subs, err \in BOOLEAN, n \in 0..quota :
          \E updates \in [1..n -> JournalUpdates] :
             GetUpdatesDone(g, err, updates) /\ UNCHANGED <<cmdVars, envVars>>
    \/ RunImmediate /\ UNCHANGED <<cmdVars, envVars>>
    \/ OnTimeout /\ UNCHANGED <<cmdVars, envVars>>
    \/ \E code \in ErrorCodes, processed \in BOOLEAN :
          OnError(code, processed) /\ UNCHANGED <<cmdVars, envVars>>
    \/ Close /\ UNCHANGED <<cmdVars, envVars>>
    \/ OnEnd /\ UNCHANGED <<cmdVars, envVars>>
    \/ OnClose /\ UNCHANGED <<cmdVars, envVars>>

Spec == Init /\ [][Next]_vars

UidLists == {<<>>, <<1>>, <<1, 2>>}

\* a queue as the notifier's journal returns it: in modseq order, every
\* FETCH carrying a flag set of its own
InJournalOrder(f) ==
    [i \in DOMAIN f |->
        [f[i] EXCEPT !.modseq = i, !.flags = IF f[i].command = "FETCH" THEN i ELSE NoFlags]]

\* a selected session with a pending queue, reached by SELECT and by
\* getUpdates answers that arrived while not idling
FlushInit ==
    /\ state = "Selected" /\ closing = FALSE /\ closed = FALSE
    /\ inRegistry = TRUE /\ socketWritable = TRUE /\ socketDestroyed = FALSE
    /\ idling = FALSE
    /\ selected = TRUE /\ mailbox = "INBOX"
    /\ uidList \in UidLists
    /\ modifyIndex = 0
    /\ condstoreEnabled = FALSE
    /\ \E n \in 0..MaxQueue : \E f \in [1..n -> BaseUpdates] :
           notifications = InJournalOrder(f)
    /\ listenerData = 1 /\ subs = <<Sub("INBOX")>>
    /\ written = <<Item(Response(Len(uidList), "EXISTS", NoFlags, 0), FromSelect, uidList)>>
    /\ sent = <<>>
    /\ immediates = <<>>
    /\ lastFlush = NoFlush
    /\ errorEmitted = FALSE
    /\ quota = 0
    /\ resolving = FALSE /\ session = TRUE /\ clientHostname = "client.example"
    /\ NothingYet

FlushNext == CommandFlush /\ UNCHANGED <<cmdVars, envVars>>

\* a session that has selected INBOX and subscribed to it
NotifyInit ==
    /\ state = "Selected" /\ closing = FALSE /\ closed = FALSE
    /\ inRegistry = TRUE /\ socketWritable = TRUE /\ socketDestroyed = FALSE
    /\ idling = FALSE
    /\ selected = TRUE /\ mailbox = "INBOX"
    /\ uidList = StoredUids("INBOX")
    /\ modifyIndex \in {0, 1}
    /\ condstoreEnabled \in BOOLEAN
    /\ notifications = <<>>
    /\ listenerData = 1 /\ subs = <<Sub("INBOX")>>
    /\ written = <<Item(Response(Len(uidList), "EXISTS", NoFlags, 0), FromSelect, uidList)>>
    /\ sent = <<>>
    /\ immediates = <<>>
    /\ lastFlush = NoFlush
    /\ errorEmitted = FALSE
    /\ quota = MaxNotified
    /\ resolving = FALSE /\ session = TRUE /\ clientHostname = "client.example"
    /\ NothingYet

\* the notifier, the store and the commands of a session that stays selected
NotifyNext ==
    \/ \E g \in DOMAIN subs : Callback(g, FALSE, "INBOX") /\ UNCHANGED <<cmdVars, envVars>>
    \/ \E g \in DOMAIN subs, err \in BOOLEAN, n \in 0..quota :
          \E updates \in [1..n -> JournalUpdates] :
             GetUpdatesDone(g, err, updates) /\ UNCHANGED <<cmdVars, envVars>>
    \/ RunImmediate /\ UNCHANGED <<cmdVars, envVars>>
    \/ StartIdle /\ UNCHANGED <<cmdVars, envVars>>
    \/ StopIdle /\ UNCHANGED <<cmdVars, envVars>>
    \/ CommandFlush /\ UNCHANGED <<cmdVars, envVars>>

NotifySpec == NotifyInit /\ [][NotifyNext]_vars

FlushSpec == FlushInit /\ [][FlushNext]_vars

\* the client's frames, the reverse lookup, a TLS upgrade and the close of
\* a connection
CommandNext ==
    \/ \E err \in BOOLEAN, hostnames \in Hostnames :
          ReverseDone(err, hostnames) /\ UNCHANGED envVars
    \/ \E final \in BOOLEAN : OnCommand(final) /\ UNCHANGED envVars
    \/ AppendDone /\ UNCHANGED envVars
    \/ \E starttls \in BOOLEAN : EndDone(starttls) /\ UNCHANGED envVars
    \/ UpgradeDone /\ UNCHANGED envVars
    \/ Close /\ UNCHANGED <<cmdVars, envVars>>
    \/ OnClose /\ UNCHANGED <<cmdVars, envVars>>

CommandSpec == Init /\ [][CommandNext]_vars

\* the idle timer, IDLE, transport errors and the close of a connection
TimerNext ==
    \/ \E err \in BOOLEAN, hostnames \in Hostnames :
          ReverseDone(err, hostnames) /\ UNCHANGED envVars
    \/ Login /\ UNCHANGED <<cmdVars, envVars>>
    \/ StartIdle /\ UNCHANGED <<cmdVars, envVars>>
    \/ StopIdle /\ UNCHANGED <<cmdVars, envVars>>
    \/ TimerFires /\ UNCHANGED <<cmdVars, socketLog, journal, query>>
    \/ \E code \in ErrorCodes, processed \in BOOLEAN :
          OnError(code, processed) /\ UNCHANGED <<cmdVars, envVars>>
    \/ Close /\ UNCHANGED <<cmdVars, envVars>>
    \/ OnEnd /\ UNCHANGED <<cmdVars, envVars>>
    \/ OnClose /\ UNCHANGED <<cmdVars, envVars>>

TimerSpec == Init /\ [][TimerNext]_vars

\* a session that has selected INBOX, after the greeting and the EXISTS of
\* SELECT have gone to the socket
EgressInit ==
    /\ state = "Selected" /\ closing = FALSE /\ closed = FALSE
    /\ inRegistry = TRUE /\ socketWritable = TRUE /\ socketDestroyed = FALSE
    /\ idling = FALSE
    /\ selected = TRUE /\ mailbox = "INBOX"
    /\ uidList = StoredUids("INBOX")
    /\ modifyIndex = 0
    /\ condstoreEnabled = FALSE
    /\ notifications = <<>>
    /\ listenerData = 1 /\ subs = <<Sub("INBOX")>>
    /\ written = <<Item(Response(Len(uidList), "EXISTS", NoFlags, 0), FromSelect, uidList)>>
    /\ sent = <<Greeting>>
    /\ immediates = <<>>
    /\ lastFlush = NoFlush
    /\ errorEmitted = FALSE
    /\ quota = MaxNotified
    /\ resolving = FALSE /\ session = TRUE /\ clientHostname = "client.example"
    /\ upgrading = FALSE /\ currentCommand = 0 /\ commands = <<>> /\ framer = NoFrames
    /\ timer = <<>> /\ journal = <<>> /\ query = NoQuery
    /\ socketLog = <<SendEntry(Greeting, 0), PipeEntry(written[1])>>

\* the notifier, the store, the commands and the timer of that session, and
\* the composer's pipe to the socket
EgressNext ==
    \/ \E g \in DOMAIN subs, del \in BOOLEAN :
          Callback(g, del, "INBOX") /\ Direct /\ UNCHANGED <<cmdVars, timer, journal, query>>
    \/ \E g \in DOMAIN subs, n \in 0..quota :
          \E updates \in [1..n -> JournalUpdates] :
             GetUpdatesDone(g, FALSE, updates) /\ UNCHANGED <<cmdVars, envVars>>
    \/ StartIdle /\ UNCHANGED <<cmdVars, envVars>>
    \/ StopIdle /\ UNCHANGED <<cmdVars, envVars>>
    \/ CommandFlush /\ UNCHANGED <<cmdVars, envVars>>
    \/ OnTimeout /\ Direct /\ UNCHANGED <<cmdVars, timer, journal, query>>
    \/ Pipe

EgressSpec == EgressInit /\ [][EgressNext]_vars

\* a session that has selected INBOX, whose journal is still empty
StoreInit ==
    /\ state = "Selected" /\ closing = FALSE /\ closed = FALSE
    /\ inRegistry = TRUE /\ socketWritable = TRUE /\ socketDestroyed = FALSE
    /\ idling = FALSE
    /\ selected = TRUE /\ mailbox = "INBOX"
    /\ uidList = StoredUids("INBOX")
    /\ modifyIndex = 0
    /\ condstoreEnabled = FALSE
    /\ notifications = <<>>
    /\ listenerData = 1 /\ subs = <<Sub("INBOX")>>
    /\ written = <<Item(Response(Len(uidList), "EXISTS", NoFlags, 0), FromSelect, uidList)>>
    /\ sent = <<Greeting>>
    /\ immediates = <<>>
    /\ lastFlush = NoFlush
    /\ errorEmitted = FALSE
    /\ quota = MaxChanges
    /\ resolving = FALSE /\ session = TRUE /\ clientHostname = "client.example"
    /\ NothingYet

\* the changes of the mailbox, the store answering getUpdates, and the
\* commands of a session that stays selected
StoreNext ==
    \/ \E g \in DOMAIN subs, c \in Commands :
          Change(g, c) /\ UNCHANGED <<cmdVars, timer, socketLog>>
    \/ StoreRead
    \/ \E g \in DOMAIN subs : Answer(g) /\ UNCHANGED <<cmdVars, timer, socketLog, journal>>
    \/ StartIdle /\ UNCHANGED <<cmdVars, envVars>>
    \/ StopIdle /\ UNCHANGED <<cmdVars, envVars>>
    \/ CommandFlush /\ UNCHANGED <<cmdVars, envVars>>
    \/ RunImmediate /\ UNCHANGED <<cmdVars, envVars>>

StoreSpec == StoreInit /\ [][StoreNext]_vars

\* ------------------------------------------------- properties of a flush
\* the message count a client derives from the responses written: the
\* number of the last EXISTS, less one for every EXPUNGE after it
RECURSIVE ClientCount(_, _, _)
ClientCount(log, i, count) ==
    IF i > Len(log) THEN count
    ELSE ClientCount(log, i + 1,
            CASE log[i].resp.atom = "EXISTS" -> log[i].resp.command
              [] log[i].resp.atom = "EXPUNGE" -> count - 1
              [] OTHER -> count)

\* positions of the output of the last flush
Out == lastFlush.out
OutPos == 1..Len(lastFlush.out)
\* uids with both an EXISTS and an EXPUNGE in queue q, read off the queue
InBoth(q) ==
    {u \in UIDs : /\ \E i \in 1..Len(q) : q[i].command = "EXISTS" /\ q[i].uid = u
                  /\ \E i \in 1..Len(q) : q[i].command = "EXPUNGE" /\ q[i].uid = u}
\* queue q without the updates of the uids in set s
RECURSIVE Without(_, _)
Without(q, s) ==
    IF q = <<>> THEN <<>>
    ELSE IF Head(q).uid \in s THEN Without(Tail(q), s)
         ELSE <<Head(q)>> \o Without(Tail(q), s)
\* number of occurrences of uid u in list
Occurrences(list, u) == Cardinality({i \in 1..Len(list) : list[i] = u})
\* position in q of the last update equal to c (0 when there is none)
PosOf(q, c) ==
    IF \E k \in 1..Len(q) : q[k] = c
    THEN CHOOSE k \in 1..Len(q) : q[k] = c /\ \A j \in (k + 1)..Len(q) : q[j] # c
    ELSE 0
\* position in q of the last FETCH update for uid u (0 when there is none)
LastFetchPos(q, u) ==
    IF \E k \in 1..Len(q) : q[k].command = "FETCH" /\ q[k].uid = u
    THEN CHOOSE k \in 1..Len(q) :
            /\ q[k].command = "FETCH" /\ q[k].uid = u
            /\ \A j \in (k + 1)..Len(q) : ~(q[j].command = "FETCH" /\ q[j].uid = u)
    ELSE 0

\* C1: after every flush the length of uidList is the message count the
\* client derives from the responses written so far (the last EXISTS, less
\* one per EXPUNGE after it).
C1_UidListIsClientCount ==
    selected => Len(uidList) = ClientCount(written, 1, 0)

\* a flush of three updates that wrote an EXPUNGE and then an EXISTS
C1_Witness ==
    /\ lastFlush.ran /\ Len(lastFlush.queue) = 3
    /\ \E i, j \in OutPos : i < j /\ Out[i].resp.atom = "EXPUNGE" /\ Out[j].resp.atom = "EXISTS"
    /\ Len(uidList) = ClientCount(written, 1, 0)

\* C2: no step of the notifier callback, of a getUpdates answer or of a flush
\* on the selected mailbox lowers modifyIndex, whatever the order of the
\* modseq values of the updates.
C2_ModifyIndexNeverDecreases == [][modifyIndex' >= modifyIndex]_vars

\* a flush met an update whose modseq is below the modifyIndex reached, after
\* an update with a higher modseq
C2_Witness ==
    /\ lastFlush.ran /\ Len(lastFlush.queue) >= 2
    /\ \E i, j \in 1..Len(lastFlush.queue) :
          i < j /\ lastFlush.queue[i].modseq > lastFlush.queue[j].modseq
    /\ \E i \in 1..Len(lastFlush.queue) : lastFlush.queue[i].modseq < modifyIndex

\* C3: a uid with both an EXISTS and an EXPUNGE update in the flushed queue
\* causes no write, stays in uidList as often as before, and the flush
\* writes and leaves what it would without the updates of that uid.
C3_AddedAndRemovedIsSilent ==
    lastFlush.ran =>
        LET q == lastFlush.queue
            rest == Emit(Without(q, InBoth(q)), lastFlush.uidList, 0, condstoreEnabled) IN
        /\ \A i \in OutPos : Out[i].cause.uid \notin InBoth(q)
        /\ \A u \in InBoth(q) :
              Occurrences(lastFlush.after, u) = Occurrences(lastFlush.uidList, u)
        /\ [i \in OutPos |-> Out[i].resp] = [i \in 1..Len(rest.out) |-> rest.out[i].resp]
        /\ lastFlush.after = rest.uidList
        /\ (Without(q, InBoth(q)) = <<>> => Out = <<>> /\ lastFlush.after = lastFlush.uidList)

\* uid_list=[1] with EXISTS(2), EXPUNGE(2): nothing written, uid_list stays [1]
C3_Witness ==
    /\ lastFlush.ran /\ lastFlush.uidList = <<1>>
    /\ Len(lastFlush.queue) = 2
    /\ lastFlush.queue[1].command = "EXISTS" /\ lastFlush.queue[1].uid = 2
    /\ lastFlush.queue[2].command = "EXPUNGE" /\ lastFlush.queue[2].uid = 2
    /\ lastFlush.queue[1].ignore = NoIgnore /\ lastFlush.queue[2].ignore = NoIgnore
    /\ Out = <<>> /\ uidList = <<1>>

\* C4: a flush writes at most one FETCH response per uid, which carries the
\* flags of the last FETCH update for that uid; nothing is written for a
\* FETCH update whose uid also has an EXISTS or an EXPUNGE update.
C4_FetchCoalescing ==
    lastFlush.ran =>
        LET q == lastFlush.queue IN
        /\ \A i, j \in OutPos :
              (Out[i].cause.command = "FETCH" /\ Out[j].cause.command = "FETCH"
               /\ Out[i].cause.uid = Out[j].cause.uid) => i = j
        /\ \A i \in OutPos : Out[i].resp.atom = "FETCH" =>
              /\ Out[i].cause.command = "FETCH"
              /\ Out[i].resp.flags = q[LastFetchPos(q, Out[i].cause.uid)].flags
        /\ \A i \in OutPos : Out[i].cause.command = "FETCH" =>
              ~\E k \in 1..Len(q) : q[k].uid = Out[i].cause.uid
                                    /\ q[k].command \in {"EXISTS", "EXPUNGE"}

\* two FETCH updates for uid 1: one FETCH response, with the second's flags
C4_Witness ==
    /\ lastFlush.ran /\ Len(lastFlush.queue) = 3
    /\ \A k \in 1..2 : lastFlush.queue[k].command = "FETCH" /\ lastFlush.queue[k].uid = 1
    /\ Len(Out) = 1 /\ Out[1].resp.atom = "FETCH"
    /\ Out[1].resp.flags = lastFlush.queue[2].flags

\* C5: an update whose ignore field is the session id causes no write; with
\* uid_list=[1,2] and FETCH(1), FETCH(1, ignore=S), FETCH(2) exactly one
\* FETCH is written, for sequence 2.
C5_EchoIsSilent ==
    lastFlush.ran =>
        LET q == lastFlush.queue IN
        /\ \A i \in OutPos : Out[i].cause.ignore # id
        /\ (/\ lastFlush.uidList = <<1, 2>> /\ Len(q) = 3
            /\ \A k \in 1..3 : q[k].command = "FETCH"
            /\ q[1].uid = 1 /\ q[2].uid = 1 /\ q[3].uid = 2
            /\ q[1].ignore = NoIgnore /\ q[2].ignore = id /\ q[3].ignore = NoIgnore)
           => [i \in OutPos |-> Out[i].resp] = <<Response(2, "FETCH", q[3].flags, 0)>>

\* the FETCH(1), FETCH(1, ignore=S), FETCH(2) flush has happened
C5_Witness ==
    /\ lastFlush.ran /\ lastFlush.uidList = <<1, 2>> /\ Len(lastFlush.queue) = 3
    /\ \A k \in 1..3 : lastFlush.queue[k].command = "FETCH"
    /\ lastFlush.queue[1].uid = 1 /\ lastFlush.queue[2].uid = 1 /\ lastFlush.queue[3].uid = 2
    /\ lastFlush.queue[1].ignore = NoIgnore /\ lastFlush.queue[2].ignore = id
    /\ lastFlush.queue[3].ignore = NoIgnore
    /\ Len(Out) = 1

\* C6: for an EXPUNGE or FETCH update whose uid is not in uidList nothing is
\* handed to the write stream, and every EXPUNGE/FETCH response written
\* carries the sequence number index+1 of its uid in uidList at that moment.
C6_NothingForAbsentUid ==
    lastFlush.ran =>
        \A i \in OutPos : Out[i].cause.command \in {"EXPUNGE", "FETCH"} =>
            /\ IndexOf(Out[i].list, Out[i].cause.uid) >= 0
            /\ Out[i].resp # False
            /\ Out[i].resp.command = IndexOf(Out[i].list, Out[i].cause.uid) + 1

\* the part of C6 the code keeps: what is written for an EXPUNGE or FETCH
\* update is a response with sequence number index+1, or the value false
C6_ResponsesCarryIndex ==
    lastFlush.ran =>
        \A i \in OutPos : Out[i].cause.command \in {"EXPUNGE", "FETCH"} =>
            IF IndexOf(Out[i].list, Out[i].cause.uid) >= 0
            THEN Out[i].resp.command = IndexOf(Out[i].list, Out[i].cause.uid) + 1
            ELSE Out[i].resp = False /\ Out[i].cause.command = "FETCH"

\* C7: a flush writes at most one EXISTS response, after every EXPUNGE
\* response of the flush, and its number is the final length of uidList.
C7_SingleExists ==
    lastFlush.ran =>
        LET ex == {i \in OutPos : Out[i].resp.atom = "EXISTS"} IN
        /\ Cardinality(ex) <= 1
        /\ \A i \in ex :
              /\ \A j \in OutPos : Out[j].resp.atom = "EXPUNGE" => j < i
              /\ Out[i].resp.command = Len(lastFlush.after)

\* EXISTS, EXPUNGE, EXISTS with the EXPUNGE written: one EXISTS follows it
C7_Witness ==
    /\ lastFlush.ran /\ Len(lastFlush.queue) = 3
    /\ lastFlush.queue[1].command = "EXISTS" /\ lastFlush.queue[2].command = "EXPUNGE"
    /\ lastFlush.queue[3].command = "EXISTS"
    /\ Len(Out) = 2 /\ Out[1].resp.atom = "EXPUNGE" /\ Out[2].resp.atom = "EXISTS"
    /\ Out[2].resp.command = Len(uidList)

\* updates of q that reach the switch of the main loop
Processed(q, k) == q[k].uid \notin InBoth(q) /\ q[k].ignore # id

ListenerRegistered == \E g \in DOMAIN subs : subs[g].registered

\* C9: whatever repetition or interleaving of close(), the 'end' event and
\* the 'close' event has run, a connection whose closed flag is set is in
\* the state a single close leaves: state Closed, subscription released,
\* out of the registry, closing flag clear; no later event changes that.
C9_CloseIsIdempotentAndFinal ==
    closed =>
        /\ state = "Closed"
        /\ ~closing
        /\ ~inRegistry
        /\ listenerData = 0 /\ ~ListenerRegistered

\* the part of C9 the code keeps: all of the above but the closing flag
C9_ClosedStaysClosed ==
    closed => state = "Closed" /\ ~inRegistry /\ listenerData = 0 /\ ~ListenerRegistered

\* C10: on every close path the subscription is released before the
\* connection leaves the registry: in no reachable state is the connection
\* out of the registry while the notifier still holds its listener.
C10_ReleasedBeforeUnregistered == ~inRegistry => ~ListenerRegistered

\* the part of C10 the code keeps: once _onClose has run no listener is left
C10_ReleasedOnceClosed == closed => ~ListenerRegistered

\* ------------------------------------------- properties of the connection
\* the lines of the two server-initiated disconnects
DeletedBye == "* BYE Selected mailbox was deleted, have to disconnect"
TimeoutBye == "* BYE Idle timeout, closing connection"
\* the payloads of a log
Range(log) == {log[i] : i \in DOMAIN log}

\* C11: once the BYE of a deleted mailbox has been sent and the connection
\* closed, no later step (a further notifier callback, a getUpdates answer,
\* another DELETE) hands anything more to the write stream or to send().
C11_SilentAfterDeletedBye ==
    [][(DeletedBye \in Range(sent)) => (written' = written /\ sent' = sent)]_vars

\* the part of C11 the code keeps: send() writes no line after that BYE
C11_NoLineAfterDeletedBye ==
    [][(DeletedBye \in Range(sent)) => sent' = sent]_vars

\* ------------------------------------------------ properties of commands
\* the command contexts still taking frames, and those whose command runs
Assembling == {c \in DOMAIN commands : ~commands[c].ended}
Running == {c \in DOMAIN commands : commands[c].ended /\ ~commands[c].completed}

\* C12: at most one command context is open and it is _currentCommand; the
\* frames of a context are consecutive frames of one client command, the
\* final one last and closing the context; no client command is spread over
\* two contexts; and while a command is assembled or runs no other is.
C12_OneCommandInFlight ==
    /\ Assembling = (IF currentCommand = 0 THEN {} ELSE {currentCommand})
    /\ Cardinality(Assembling \cup Running) <= 1
    /\ \A c \in DOMAIN commands :
          LET f == commands[c].frames IN
          /\ Len(f) >= 1
          /\ \A i \in 1..Len(f) :
                /\ f[i].cmd = f[1].cmd
                /\ f[i].n = f[1].n + i - 1
                /\ f[i].final <=> (i = Len(f) /\ commands[c].ended)
    /\ \A c, d \in DOMAIN commands :
          c # d => commands[c].frames[1].cmd # commands[d].frames[1].cmd

\* a command of two frames was assembled and has completed, then a second
\* command was assembled in a context of its own
C12_Witness ==
    /\ Len(commands) = 2
    /\ Len(commands[1].frames) = 2 /\ commands[1].completed
    /\ commands[2].ended /\ commands[2].frames[1].cmd = 2

\* C13: a frame handed to _onCommand while _upgrading is set is acknowledged
\* at once and changes nothing else: no context is created or extended, no
\* command is started, _currentCommand stays, nothing is written.
C13_NoDispatchWhileUpgrading ==
    [][(upgrading /\ framer'.n = framer.n + 1) =>
          /\ ~framer'.waiting
          /\ currentCommand' = currentCommand
          /\ commands' = commands
          /\ written' = written /\ sent' = sent
          /\ state' = state /\ upgrading' = upgrading]_vars

\* a one-frame STARTTLS command has completed and the frame after it was
\* read and dropped during the upgrade
C13_Witness ==
    /\ upgrading
    /\ Len(commands) = 1 /\ Len(commands[1].frames) = 1 /\ commands[1].completed
    /\ framer.n = 3 /\ ~framer.waiting
    /\ currentCommand = 0

\* --------------------------------------- properties of timeouts and errors
\* C14: a firing of the idle timer while idling is set sends nothing and
\* leaves the connection open; a firing while idling is not set writes
\* '* BYE Idle timeout, closing connection' to the socket (if it is still
\* writable) before close() ends it, takes the connection out of the
\* registry and marks it closing. A firing after IDLE has ended closes.
C14_TimeoutSuppressedWhileIdling ==
    [][Len(timer') > Len(timer) =>
          IF idling
          THEN /\ sent' = sent
               /\ closing' = closing /\ closed' = closed /\ state' = state
               /\ inRegistry' = inRegistry /\ socketWritable' = socketWritable
          ELSE /\ socketWritable => sent' = Append(sent, TimeoutBye)
               /\ ~socketWritable => sent' = sent
               /\ closing' /\ ~inRegistry' /\ ~socketWritable']_vars

\* the timer fired during IDLE and the connection stayed open; IDLE ended,
\* the timer fired again, and the BYE was sent and the connection closed
C14_Witness ==
    /\ timer = <<TRUE, FALSE>>
    /\ ~idling /\ closing /\ ~inRegistry /\ ~socketWritable
    /\ sent = <<Greeting, TimeoutBye>>

\* the line the connection is to answer a client that talks before the greeting
TalkTooSoon == "* BAD You talk too soon"

\* C15: when the parser has handed over a frame while dns.reverse has not
\* called back (no session, no greeting yet), the connection has answered
\* '* BAD You talk too soon', is closing or closed, and has put no frame
\* into a command context.
C15_TalkTooSoon ==
    (resolving /\ framer.n > 1) =>
        /\ commands = <<>>
        /\ TalkTooSoon \in Range(sent)
        /\ closing \/ closed

\* the transport errors that close without a report
Silent == {"ECONNRESET", "EPIPE"}

\* C16: _onError with code ECONNRESET or EPIPE closes the connection and
\* emits no 'error' event and sends no line; with any other code it emits
\* the 'error' event (logged at error level) and closes the connection.
C16_ErrorsClose ==
    [][\A code \in ErrorCodes :
          OnError(code, FALSE) =>
             IF code \in Silent
             THEN closing' /\ ~inRegistry' /\ errorEmitted' = errorEmitted /\ sent' = sent
             ELSE errorEmitted' /\ closing' /\ ~inRegistry']_vars

\* the part of C16 the code keeps: the silent close, and the 'error' event
\* for the other codes
C16_SilentOrReported ==
    [][\A code \in ErrorCodes :
          OnError(code, FALSE) =>
             IF code \in Silent
             THEN closing' /\ ~inRegistry' /\ errorEmitted' = errorEmitted /\ sent' = sent
             ELSE errorEmitted' /\ sent' = sent]_vars

\* ------------------------------------------------ properties of the egress
\* C17: the socket is given the server's output in the order it was issued:
\* when a line of send() (a BYE) is on the socket, every response handed to
\* the composer before that line was issued is on the socket ahead of it.
C17_NoOvertaking ==
    \A i \in DOMAIN socketLog :
        socketLog[i].from = "send" => Piped(socketLog, i) = socketLog[i].handed

\* the part of C17 the code keeps: the composer's responses reach the socket
\* in the order the composer was handed them
C17_ComposerInOrder ==
    LET responses == SelectSeq(socketLog, LAMBDA e : e.from = "composer") IN
    /\ Len(responses) <= Len(written)
    /\ \A k \in 1..Len(responses) : responses[k].item = written[k]

\* ---------------------------------------------- properties of the listener
\* the subscriptions whose callback the notifier holds
Registered == {g \in DOMAIN subs : subs[g].registered}

\* at most one listener, and it is the one _listenerData names; none when
\* nothing is selected
OneListener ==
    /\ Cardinality(Registered) <= 1
    /\ Registered = (IF listenerData = 0 THEN {} ELSE {listenerData})
    /\ listenerData # 0 => ~subs[listenerData].cleared
    /\ ~selected => listenerData = 0

\* C18: every step leaves at most one listener registered; SELECT of the
\* mailbox already subscribed to adds and removes nothing; SELECT of another
\* mailbox removes the old listener and adds one for the new mailbox; after
\* CLOSE/UNSELECT no listener remains and _listenerData is false.
C18_AtMostOneListener ==
    [][/\ OneListener'
       /\ \A mb \in Mailboxes :
             Select(mb, 1, FALSE) =>
                IF listenerData # 0 /\ subs[listenerData].mailbox = mb
                THEN subs' = subs /\ listenerData' = listenerData
                ELSE /\ listenerData # 0 =>
                           subs'[listenerData].cleared /\ ~subs'[listenerData].registered
                     /\ Len(subs') = Len(subs) + 1
                     /\ listenerData' = Len(subs')
                     /\ subs'[listenerData'].mailbox = mb
       /\ Unselect => (listenerData' = 0 /\ Registered' = {})]_vars

\* INBOX was selected, then Sent: the listener of INBOX is gone and the
\* only one registered is that of Sent
C18_Witness ==
    /\ Len(subs) = 2 /\ listenerData = 2 /\ mailbox = "Sent"
    /\ subs[1].mailbox = "INBOX" /\ subs[1].cleared /\ ~subs[1].registered
    /\ subs[2].mailbox = "Sent" /\ subs[2].registered

\* C19: a subscription never has two getUpdates calls outstanding, its lock
\* is set exactly while one is outstanding (so it is released by every
\* answer, with or without an error) as long as the subscription was not
\* cleared, and an answer with an error leaves the notification queue and
\* modifyIndex as they were and writes nothing.
C19_LockPreventsOverlap ==
    [][/\ \A g \in DOMAIN subs' :
             /\ subs'[g].pending <= 1
             /\ ~subs'[g].cleared => (subs'[g].lock <=> subs'[g].pending = 1)
       /\ \A g \in DOMAIN subs :
             (~subs[g].cleared /\ GetUpdatesDone(g, TRUE, <<>>)) =>
                /\ ~subs'[g].lock
                /\ notifications' = notifications /\ modifyIndex' = modifyIndex
                /\ written' = written /\ sent' = sent]_vars

\* a query is outstanding under the lock after an earlier one was answered
\* and its updates queued
C19_Witness ==
    /\ subs[1].lock /\ subs[1].pending = 1 /\ ~subs[1].cleared
    /\ notifications # <<>> /\ quota < MaxNotified

\* no getUpdates call is outstanding: none with the store, no lock held
NoQueryInFlight == query = NoQuery /\ \A g \in DOMAIN subs : subs[g].pending = 0

\* the journal entries the session has been given (queued or flushed): an
\* answer carries every entry above the modifyIndex of its call and moves
\* modifyIndex to the last of them
Delivered(k) == journal[k].modseq <= modifyIndex

\* C20: a change the notifier announced while a getUpdates call was in
\* flight is not left behind: once every call has been answered (none is in
\* flight, so nothing more will come unless the mailbox changes again),
\* every change in the journal has been queued or flushed.
C20_ChangeNotLost ==
    NoQueryInFlight => \A k \in DOMAIN journal : Delivered(k)

\* the part of C20 the code keeps: what an answer carries is queued in
\* journal order, nothing twice
C20_QueuedInJournalOrder ==
    \A i, j \in DOMAIN notifications :
        i < j => notifications[i].modseq < notifications[j].modseq

\* ------------------------------------------ properties of getUpdates answers
\* C21: an answer of getUpdates with updates, in a selected session, puts
\* them behind the queue in their order; while idling the whole queue is
\* flushed in the same step, while not idling the step writes nothing and
\* schedules nothing. Every step that flushes leaves the queue empty and
\* schedules one onNotifications(mailbox, modifyIndex) call.
C21_AnswerQueuesOrFlushes ==
    [][/\ \A g \in DOMAIN subs, n \in 1..MaxNotified :
             \A updates \in [1..n -> JournalUpdates] :
                GetUpdatesDone(g, FALSE, updates) =>
                   IF idling
                   THEN /\ lastFlush'.ran
                        /\ lastFlush'.queue = notifications \o updates
                        /\ written' = written \o lastFlush'.out
                        /\ notifications' = <<>>
                   ELSE /\ notifications' = notifications \o updates
                        /\ written' = written /\ sent' = sent
                        /\ immediates' = immediates /\ uidList' = uidList
       /\ (written' # written \/ lastFlush' # lastFlush) =>
             /\ notifications' = <<>>
             /\ immediates' = Append(immediates,
                                     [mailbox |-> mailbox, modifyIndex |-> modifyIndex'])]_vars

\* while idling an answer with two updates was flushed at once: the queue
\* is empty and one onNotifications call is scheduled
C21_Witness ==
    /\ idling /\ lastFlush.ran /\ Len(lastFlush.queue) = 2
    /\ quota = 0 /\ notifications = <<>>
    /\ Len(immediates) = 1 /\ immediates[1].modifyIndex = modifyIndex

\* ------------------------------------------------ properties of stale events
\* subscription g was cleared, or the session is no longer in Selected
Stale(g) == subs[g].cleared \/ state # "Selected" \/ ~selected

\* what a stale event is to leave alone: no getUpdates call is made, the
\* selection and both outputs stay, and g is not (or no longer) registered
NoEffect(g) ==
    /\ \A h \in DOMAIN subs : subs'[h].pending <= subs[h].pending
    /\ notifications' = notifications /\ modifyIndex' = modifyIndex /\ uidList' = uidList
    /\ written' = written /\ sent' = sent /\ immediates' = immediates
    /\ ~subs'[g].registered

LookupEnds == resolving /\ ~resolving'

\* C23: the greeting is sent at most once, by the dns.reverse callback and
\* together with the start of the session, and nothing else starts the
\* session; the callback of a connection neither closing nor closed starts
\* the session and sends the greeting, also when the lookup failed, and then
\* clientHostname is the address in brackets; the callback of a closing or
\* closed connection starts no session and sends nothing.
C23_GreetingOnceAfterLookup ==
    [][/\ Occurrences(sent', Greeting) <= 1
       /\ (Occurrences(sent', Greeting) # Occurrences(sent, Greeting) \/ session' # session) =>
             /\ LookupEnds /\ ~closing /\ ~closed
             /\ ~session /\ session'
             /\ sent' = Append(sent, Greeting)
       /\ LookupEnds =>
             IF closing \/ closed
             THEN ~session' /\ sent' = sent /\ clientHostname' = NoHostname
             ELSE /\ session' /\ sent' = Append(sent, Greeting)
                  /\ clientHostname' \in {"client.example", "[" \o RemoteAddress \o "]"}
       /\ \A hostnames \in Hostnames :
             (ReverseDone(TRUE, hostnames) /\ ~closing /\ ~closed) =>
                /\ session' /\ sent' = Append(sent, Greeting)
                /\ clientHostname' = "[" \o RemoteAddress \o "]"]_vars

\* the lookup gave no name: the session runs under the bracketed address, the
\* greeting is the one line sent, and the connection went on to log in
C23_Witness ==
    /\ ~resolving /\ session
    /\ clientHostname = "[192.0.2.1]"
    /\ sent = <<Greeting>>
    /\ state = "Authenticated"

====
